---- MODULE Spec2Model ----
(***************************************************************************)
(* pedgraph: a genealogy kept in a Neo4j graph.                            *)
(*                                                                         *)
(*   BuildDB (pedgraph/BuildDB.py) checks a pedigree CSV, creates the      *)
(*   uniqueness constraint on ind, ingests the file with Cypher MERGE      *)
(*   queries, deletes the node of the absent-parent identifier and labels  *)
(*   founders and leaves.                                                  *)
(*   build_db.BuildDB (pedgraph/build_db.py) reads the file as text and    *)
(*   ingests it record by record.                                          *)
(*   ReconstructGenealogy (pedgraph/ReconstructGenealogy.py) collects the  *)
(*   probands and their ancestors and rebuilds a Genealogy                 *)
(*   (pedgraph/DataStructures.py) from the records of the graph.           *)
(*   AddNodeLabels (pedgraph/BuildDB.py) adds a label to the nodes that a  *)
(*   CSV file names; PopulateFromCsv (populate_from_csv.py) is an earlier  *)
(*   record-by-record builder.                                             *)
(*                                                                         *)
(* The graph is a property graph: nodes have an internal identity, a label *)
(* set and the properties ind and sex; relationships are typed, directed   *)
(* and may exist more than once between the same nodes (a bag).            *)
(*                                                                         *)
(* Specifications: Spec (ingestions and classification), SpecRecon (one    *)
(* ingestion and reconstructions), SpecStart (the checks of the file and   *)
(* the indexes of the store), SpecRetry (an ingestion interrupted and made *)
(* again), SpecRows (the record-by-record builder), SpecGen (the calls on  *)
(* a Genealogy), SpecForms (the argument forms of ReconstructGenealogy),   *)
(* SpecLabels (AddNodeLabels on an ingested pedigree), SpecBuilt           *)
(* (reconstructions from an ingested pedigree), SpecPopulate (the script   *)
(* populate_from_csv.py).                                                  *)
(***************************************************************************)
EXTENDS Integers, Sequences, FiniteSets, Bags, TLC

VARIABLES
    db,        \* the graph: [node |-> internal id -> [ind, sex, labels], rels |-> bag of <<src, type, dst>>]
    schema,    \* the indexes and constraints of the store: a set of [name, label, property, kind]
    pc,        \* position of the running constructor, "idle" when none runs
    csv,       \* self.csv of the running / last builder: the rows of the file
               \* (pedgraph.BuildDB), its lines of text (pedgraph.build_db)
    csv_header, \* the header line of that file: the names of its columns
    na_id,     \* self.na_id of the running / last BuildDB
    done,      \* the rows of the file that the running / interrupted ingestion has written
    prev,      \* history: the graph when the running / last builder started
    prev_csv,  \* history: the rows of the BuildDB before that one
    rows_left, \* how many more rows the bounded inputs may still hold
    recon,     \* the ReconstructGenealogy object, NoRecon when there is none
    gen,       \* a Genealogy object that a caller holds
    log,       \* logging.warning messages of the running / last call
    raised,    \* the exception that ended the last call, None when it returned
    op,        \* history: the last call made
    args       \* history: the arguments of the last call to create_index, to a Genealogy method,
               \* to ReconstructGenealogy or to AddNodeLabels

vars == <<db, schema, pc, csv, csv_header, na_id, done, prev, prev_csv, rows_left, recon, gen,
          log, raised, op, args>>

----------------------------------------------------------------------------
(* Bounds and input sets *)

\* rows that all the ingested CSV files of one behaviour hold together
MaxRows == 2
\* length of the proband list of a reconstruction
MaxProbands == 2

\* identifiers of individuals
Ids == {"1", "2", "3"}
\* identifiers that the CSV rows name as father and as mother
Fathers == {"1"}
Mothers == {"2"}
\* a proband that no pedigree holds
Stranger == "4"
Sexes == {"F", "M"}
\* values of the na_id argument
NaIds == {"0", "9"}

\* Python None, Cypher null
None == "<None>"

----------------------------------------------------------------------------
(* The graph store: the Cypher clauses the queries use *)

EmptyGraph == [node |-> <<>>, rels |-> EmptyBag]

\* the internal identity of a node that a clause creates
FreshId(g) == CHOOSE i \in 1..(Cardinality(DOMAIN g.node) + 1) : i \notin DOMAIN g.node

\* MATCH (n:label {ind: x})
Match(g, label, x) == {n \in DOMAIN g.node : label \in g.node[n].labels /\ g.node[n].ind = x}

\* MergeNode gone wrong: CREATE in the place of MERGE
CreateNode(g, x) ==
    [g EXCEPT !.node = g.node @@ (FreshId(g) :> [ind |-> x, sex |-> None, labels |-> {"Person"}])]

\* MERGE (n:Person {ind: x}): the nodes that match, or else one new node
MergeNode(g, x) ==
    IF Match(g, "Person", x) # {}
    THEN g
    ELSE [g EXCEPT !.node = g.node @@ (FreshId(g) :> [ind |-> x, sex |-> None, labels |-> {"Person"}])]

\* MergeRel gone wrong: CREATE in the place of MERGE
CreateRel(g, srcs, type, dsts) ==
    [g EXCEPT !.rels = g.rels (+) SetToBag({<<s, type, d>> : s \in srcs, d \in dsts})]

\* MERGE (a)-[:type]->(b) for the bound nodes: created where there is none
MergeRel(g, srcs, type, dsts) ==
    LET missing == {e \in {<<s, type, d>> : s \in srcs, d \in dsts} : ~BagIn(e, g.rels)}
    IN  [g EXCEPT !.rels = g.rels (+) SetToBag(missing)]

\* SET n.sex = s for the bound nodes
SetSex(g, ns, s) ==
    [g EXCEPT !.node = [n \in DOMAIN g.node |->
        IF n \in ns THEN [g.node[n] EXCEPT !.sex = s] ELSE g.node[n]]]

\* SetLabel gone wrong: the label takes the place of the labels that were there
ReplaceLabels(g, ns, label) ==
    [g EXCEPT !.node = [n \in DOMAIN g.node |->
        IF n \in ns THEN [g.node[n] EXCEPT !.labels = {label}] ELSE g.node[n]]]

\* SetLabel gone wrong: SET n = {} with the label, which clears the properties
\* that the query does not name
SetLabelClearing(g, ns, label) ==
    [g EXCEPT !.node = [n \in DOMAIN g.node |->
        IF n \in ns THEN [g.node[n] EXCEPT !.sex = None, !.labels = @ \cup {label}] ELSE g.node[n]]]

\* SET n:label for the bound nodes
SetLabel(g, ns, label) ==
    [g EXCEPT !.node = [n \in DOMAIN g.node |->
        IF n \in ns THEN [g.node[n] EXCEPT !.labels = @ \cup {label}] ELSE g.node[n]]]

\* DETACH DELETE of the bound nodes: their relationships go with them
DetachDelete(g, ns) ==
    LET keep == {e \in BagToSet(g.rels) : e[1] \notin ns /\ e[3] \notin ns}
    IN  [node |-> [n \in DOMAIN g.node \ ns |-> g.node[n]],
         rels |-> [e \in keep |-> g.rels[e]]]

\* (n)-[:type]->() and (n)<-[:type]-()
HasOut(g, n, type) == \E e \in BagToSet(g.rels) : e[1] = n /\ e[2] = type
HasIn(g, n, type) == \E e \in BagToSet(g.rels) : e[3] = n /\ e[2] = type

\* CREATE CONSTRAINT name ON (p:label) ASSERT p.property IS UNIQUE and
\* CREATE INDEX name FOR (p:label) ON (p.property): the title of the ClientError
\* with which the store answers, None when it creates the rule
CreateRule(rules, rule) ==
    LET same_schema == {r \in rules : r.label = rule.label /\ r.property = rule.property}
        same_name == {r \in rules : r.name = rule.name}
    IN  IF rule \in rules THEN "EquivalentSchemaRuleAlreadyExists"
        ELSE IF \E r \in same_schema : r.kind = "constraint" THEN "ConstraintAlreadyExists"
        ELSE IF same_schema # {} THEN "IndexAlreadyExists"
        ELSE IF \E r \in same_name : r.kind = "constraint" THEN "ConstraintWithNameAlreadyExists"
        ELSE IF same_name # {} THEN "IndexWithNameAlreadyExists"
        ELSE None

----------------------------------------------------------------------------
(* BaseBuilder *)

CSV_COLUMNS == <<"ind", "father", "mother", "sex">>

\* check_csv_basic gone wrong: the columns are not looked at
check_csv_rows(head, rows, csv_columns) ==
    IF Len(rows) = 0 THEN "AssertionError" ELSE None

\* check_csv_basic: the exception it raises, None when the file passes
check_csv_basic(head, rows, csv_columns) ==
    IF \E i \in DOMAIN csv_columns : \A j \in DOMAIN head : head[j] # csv_columns[i]
    THEN "AssertionError"
    ELSE IF Len(rows) = 0 THEN "AssertionError"
    ELSE None

\* the ClientError titles that create_index ignores
catch_errors == {"EquivalentSchemaRuleAlreadyExists", "ConstraintAlreadyExists",
                 "ConstraintWithNameAlreadyExists"}

\* create_index: the rules afterwards and the exception raised; fault is an
\* error of the store that is no ClientError (None when the store is up)
create_index(rules, index_name, node_label, node_property, unique, fault) ==
    LET rule == [name |-> index_name, label |-> node_label, property |-> node_property,
                 kind |-> IF unique THEN "constraint" ELSE "index"]
        title == CreateRule(rules, rule)
    IN  IF fault # None THEN [schema |-> rules, raised |-> fault]
        ELSE IF title = None THEN [schema |-> rules \cup {rule}, raised |-> None]
        ELSE IF title \in catch_errors THEN [schema |-> rules, raised |-> None]
        ELSE [schema |-> rules, raised |-> title]

----------------------------------------------------------------------------
(* BuildDB *)

\* the body of the LOAD CSV query for one line
LoadLine(g, line) ==
    LET g1 == MergeNode(g, line.ind)
        person == Match(g1, "Person", line.ind)
        g2 == SetSex(g1, person, line.sex)
        g3 == MergeNode(g2, line.father)
        father == Match(g3, "Person", line.father)
        g4 == MergeNode(g3, line.mother)
        mother == Match(g4, "Person", line.mother)
        g5 == MergeRel(g4, person, "is_child", father)
        g6 == MergeRel(g5, person, "is_child", mother)
        g7 == MergeRel(g6, father, "is_father", person)
    IN  MergeRel(g7, mother, "is_mother", person)

\* the LOAD CSV query: the lines of the file in order
RECURSIVE LoadLines(_, _)
LoadLines(g, lines) ==
    IF lines = <<>> THEN g ELSE LoadLines(LoadLine(g, Head(lines)), Tail(lines))

\* USING PERIODIC COMMIT 1000: the rows after which the LOAD CSV query commits.
\* 1 here, where a file holds MaxRows rows, so that a file spans commits
PERIODIC_COMMIT == 1

\* the numbers of rows that the LOAD CSV query may have committed when it is
\* interrupted
Committed(lines) == {k \in 0..(Len(lines) - 1) : k % PERIODIC_COMMIT = 0}

\* DeleteNa gone wrong: the default "0" in the place of na_id
DeleteDefaultNa(g, na) == DetachDelete(g, {n \in DOMAIN g.node : g.node[n].ind = "0"})

\* the second query of load_csv: MATCH (p {ind: $na_id}) DETACH DELETE p
DeleteNa(g, na) == DetachDelete(g, {n \in DOMAIN g.node : g.node[n].ind = na})

\* MATCH (p:Person) WHERE NOT (p)-[:is_child]->() SET p:Founder
label_founders(g) ==
    SetLabel(g, {n \in DOMAIN g.node : "Person" \in g.node[n].labels /\ ~HasOut(g, n, "is_child")}, "Founder")

\* MATCH (p:Person) WHERE NOT (p)<-[:is_child]-() SET p:Leaf
label_leaves(g) ==
    SetLabel(g, {n \in DOMAIN g.node : "Person" \in g.node[n].labels /\ ~HasIn(g, n, "is_child")}, "Leaf")

\* the queries of BuildDB.__init__ after create_index, run to the end
RunBuildDB(g, lines, na) == label_leaves(label_founders(DeleteNa(LoadLines(g, lines), na)))

----------------------------------------------------------------------------
(* AddNodeLabels *)

\* MatchProperty gone wrong: the label of the pattern is left out
MatchPropertyAnyLabel(g, label, prop, value) ==
    {n \in DOMAIN g.node :
        value # None /\ prop \in DOMAIN g.node[n] /\ g.node[n][prop] = value}

\* MATCH (node:label {prop: value}); a null value, which LOAD CSV gives for an
\* empty field, matches nothing, and so does a property the node does not have
MatchProperty(g, label, prop, value) ==
    {n \in DOMAIN g.node :
        /\ label \in g.node[n].labels
        /\ value # None /\ prop \in DOMAIN g.node[n] /\ g.node[n][prop] = value}

\* the third query of AddNodeLabels.load_csv: for each line of the file,
\* MATCH (node:match_label {prop_match: line.prop_match}) SET node:new_label
RECURSIVE AddNodeLabels_load_csv(_, _, _, _, _)
AddNodeLabels_load_csv(g, lines, match_label, prop_match, new_label) ==
    IF lines = <<>> THEN g
    ELSE LET node == MatchProperty(g, match_label, prop_match, Head(lines)[1])
         IN  AddNodeLabels_load_csv(SetLabel(g, node, new_label), Tail(lines),
                                    match_label, prop_match, new_label)

----------------------------------------------------------------------------
(* DataStructures: Record and Genealogy *)

Record(ind, father, mother, sex) == [ind |-> ind, father |-> father, mother |-> mother, sex |-> sex]

\* Genealogy.__init__: an empty dict and size 0
Genealogy == [data |-> [k \in {} |-> None], size |-> 0]

\* check_type: arg is an instance of correct_type. Where a str is expected the
\* values are strings and None; where a Record is expected they are objects,
\* and a Record is one with the attribute ind
check_type(arg, correct_type) ==
    IF correct_type = "str" THEN arg # None ELSE "ind" \in DOMAIN arg

\* setitem gone wrong: size counts the calls
setitem_counting(g, key, value) ==
    [data |-> [k \in DOMAIN g.data \cup {key} |-> IF k = key THEN value ELSE g.data[k]],
     size |-> g.size + 1]

\* setitem gone wrong: the record that is there stays (dict.setdefault)
setitem_keep(g, key, value) ==
    [data |-> [k \in DOMAIN g.data \cup {key} |-> IF k \in DOMAIN g.data THEN g.data[k] ELSE value],
     size |-> IF key \in DOMAIN g.data THEN g.size ELSE g.size + 1]

\* Genealogy.__setitem__: a key that is there is overwritten and leaves size
\* alone, a new key adds one to size
setitem(g, key, value) ==
    LET overwrite == key \in DOMAIN g.data
    IN  [data |-> [k \in DOMAIN g.data \cup {key} |-> IF k = key THEN value ELSE g.data[k]],
         size |-> IF overwrite THEN g.size ELSE g.size + 1]

\* the warning that Genealogy.__setitem__ logs when it overwrites
setitem_warning(g, key) == IF key \in DOMAIN g.data THEN <<<<"overwrite", key>>>> ELSE <<>>

\* the exception of __setitem__: the assertions of check_type
setitem_raises(key, value) ==
    IF check_type(key, "str") /\ check_type(value, "Record") THEN None ELSE "AssertionError"

\* Genealogy.add
add(g, record) == setitem(g, record.ind, record)

\* the exception of add: its own check_type, then those of __setitem__
add_raises(record) ==
    IF ~check_type(record, "Record") THEN "AssertionError" ELSE setitem_raises(record.ind, record)

\* Genealogy.__delitem__: dict.__delitem__, then size goes down by one
delitem(g, key) ==
    [data |-> [k \in DOMAIN g.data \ {key} |-> g.data[k]], size |-> g.size - 1]

\* the exception of __delitem__: dict.__delitem__ raises for a key that is not there
delitem_raises(g, key) == IF key \in DOMAIN g.data THEN None ELSE "KeyError"

----------------------------------------------------------------------------
(* ReconstructGenealogy *)

\* the elements of a sequence, and the elements of a set in some order
Range(s) == {s[i] : i \in DOMAIN s}
RECURSIVE AnyOrder(_)
AnyOrder(S) ==
    IF S = {} THEN <<>> ELSE LET x == CHOOSE y \in S : TRUE IN <<x>> \o AnyOrder(S \ {x})

\* the orders in which a query may return the rows S
RECURSIVE Orders(_)
Orders(S) ==
    IF S = {} THEN {<<>>}
    ELSE UNION {{<<x>> \o s : s \in Orders(S \ {x})} : x \in S}

\* UNWIND $inds AS x MATCH (proband:Person {ind: x}) RETURN proband.ind
RECURSIVE get_probands(_, _)
get_probands(g, inds) ==
    IF inds = <<>> THEN <<>>
    ELSE [i \in 1..Cardinality(Match(g, "Person", Head(inds))) |-> <<Head(inds)>>]
         \o get_probands(g, Tail(inds))

\* Reach gone wrong: one is_child relationship, (proband)-[:is_child]->(parent)
ReachOne(g, frontier, seen) ==
    {e[3] : e \in {r \in BagToSet(g.rels) : r[2] = "is_child" /\ r[1] \in frontier}}

\* Reach gone wrong: relationships of any type, (proband)-[*]->(parent)
RECURSIVE ReachAnyType(_, _, _)
ReachAnyType(g, frontier, seen) ==
    LET next == {e[3] : e \in {r \in BagToSet(g.rels) : r[1] \in frontier}}
        new == next \ seen
    IN  IF new = {} THEN seen ELSE ReachAnyType(g, new, seen \cup new)

\* Reach gone wrong: a path never ends in a node of the step it leaves, so a
\* node that is its own parent is not reached from itself
RECURSIVE ReachNotBack(_, _, _)
ReachNotBack(g, frontier, seen) ==
    LET next == {e[3] : e \in {r \in BagToSet(g.rels) : r[2] = "is_child" /\ r[1] \in frontier}}
        new == (next \ seen) \ frontier
    IN  IF new = {} THEN seen ELSE ReachNotBack(g, new, seen \cup new)

\* the nodes at the end of a path of one or more is_child relationships that
\* starts in frontier: (proband)-[:is_child*]->(parent)
RECURSIVE Reach(_, _, _)
Reach(g, frontier, seen) ==
    LET next == {e[3] : e \in {r \in BagToSet(g.rels) : r[2] = "is_child" /\ r[1] \in frontier}}
        new == next \ seen
    IN  IF new = {} THEN seen ELSE Reach(g, new, seen \cup new)

\* get_ancestors: RETURN DISTINCT parent.ind, flattened to a list
get_ancestors(g, probands) ==
    LET start == UNION {Match(g, "Person", x) : x \in Range(probands)}
        parents == {n \in Reach(g, start, {}) : "Person" \in g.node[n].labels}
    IN  AnyOrder({g.node[n].ind : n \in parents})

\* the rows of the get_records query: one for each child node, each is_father
\* relationship into it (or none) and each is_mother relationship into it (or none)
Incoming(g, n, type) ==
    LET found == UNION {{<<e[1], i>> : i \in 1..CopiesIn(e, g.rels)} :
                        e \in {r \in BagToSet(g.rels) : r[3] = n /\ r[2] = type}}
    IN  IF found = {} THEN {<<0, 0>>} ELSE found

RecordRows(g, inds) ==
    UNION {{<<c, f, m>> : f \in Incoming(g, c, "is_father"), m \in Incoming(g, c, "is_mother")} :
           c \in UNION {Match(g, "Person", x) : x \in inds}}

\* RETURN child.ind, father.ind, mother.ind, child.sex
RowValue(g, row) ==
    <<g.node[row[1]].ind,
      IF row[2][1] = 0 THEN None ELSE g.node[row[2][1]].ind,
      IF row[3][1] = 0 THEN None ELSE g.node[row[3][1]].ind,
      g.node[row[1]].sex>>

\* get_records: the rows in each order the query may return them
get_records(g, inds) == {[i \in DOMAIN s |-> RowValue(g, s[i])] : s \in Orders(RecordRows(g, inds))}

\* the loop of reconstruct_genealogy over the records; st holds the Genealogy
\* and the warnings logged so far
RECURSIVE AddRecords(_, _)
AddRecords(st, records) ==
    IF records = <<>> THEN st
    ELSE LET rec == Head(records)
             mother == IF rec[3] = None THEN "0" ELSE rec[3]
             father == IF rec[2] = None THEN "0" ELSE rec[2]
             record == Record(rec[1], father, mother, rec[4])
         IN  AddRecords([gen |-> add(st.gen, record),
                         log |-> st.log \o setitem_warning(st.gen, record.ind)],
                        Tail(records))

\* the warning of reconstruct_genealogy about probands that are missing
MissingWarning(g, probands) ==
    LET n_missing == Len(get_probands(g, probands)) - Len(probands)
    IN  IF n_missing > 0 THEN <<<<"missing", n_missing>>>> ELSE <<>>

\* reconstruct_genealogy: the genealogies it may build, each with the warnings
\* logged on the way
reconstruct_genealogy(g, probands) ==
    LET ancestors == get_ancestors(g, probands)
        inds == Range(ancestors) \cup Range(probands)
    IN  {AddRecords([gen |-> Genealogy, log |-> MissingWarning(g, probands)], records) :
            records \in get_records(g, inds)}

\* Genealogy.write_csv: the header line and one line for each record, each
\* line the characters of '%s,%s,%s,%s' % (ind, father, mother, sex)
Chars(v) == IF v = None THEN <<"N", "o", "n", "e">> ELSE <<v>>
write_csv(g) ==
    LET keys == AnyOrder(DOMAIN g.data)
        line(r) == Chars(r.ind) \o <<",">> \o Chars(r.father) \o <<",">>
                   \o Chars(r.mother) \o <<",">> \o Chars(r.sex)
    IN  <<<<"i", "n", "d", ",", "f", "a", "t", "h", "e", "r", ",",
            "m", "o", "t", "h", "e", "r", ",", "s", "e", "x">>>>
        \o [i \in DOMAIN keys |-> line(g.data[keys[i]])]

----------------------------------------------------------------------------
(* build_db: reading a CSV file line by line *)

Whitespace == {" ", "\n", "\t"}

\* str.strip
RECURSIVE Strip(_)
Strip(cs) ==
    IF cs = <<>> THEN <<>>
    ELSE IF Head(cs) \in Whitespace THEN Strip(Tail(cs))
    ELSE IF cs[Len(cs)] \in Whitespace THEN Strip(SubSeq(cs, 1, Len(cs) - 1))
    ELSE cs

\* str.split(sep): the fields between the separators
RECURSIVE Split(_, _)
Split(cs, sep) ==
    IF \A i \in DOMAIN cs : cs[i] # sep THEN <<cs>>
    ELSE LET k == CHOOSE i \in DOMAIN cs : cs[i] = sep /\ \A j \in 1..(i - 1) : cs[j] # sep
         IN  <<SubSeq(cs, 1, k - 1)>> \o Split(SubSeq(cs, k + 1, Len(cs)), sep)

\* the string of a list of characters
RECURSIVE Text(_)
Text(cs) == IF cs = <<>> THEN "" ELSE Head(cs) \o Text(Tail(cs))

\* csv_reader: the (ind, father, mother, sex) tuples of the lines after the
\* header; ok is FALSE when a line has fewer than four fields and the
\* unpacking raises
csv_reader(lines, header, sep) ==
    LET body == IF header /\ lines # <<>> THEN Tail(lines) ELSE lines
        fields(l) == LET all == Split(Strip(l), sep)
                     IN  SubSeq(all, 1, IF Len(all) < 4 THEN Len(all) ELSE 4)
    IN  [ok |-> \A i \in DOMAIN body : Len(fields(body[i])) = 4,
         records |-> [i \in DOMAIN body |->
                        [j \in DOMAIN fields(body[i]) |-> Text(Strip(fields(body[i])[j]))]]]

\* assert_unique_inds gone wrong: the file is not read before it is ingested
assert_unique_inds_unread(lines, header, sep) == None

\* assert_unique_inds: the exception it raises, None when it passes. The
\* unpacking in csv_reader raises ValueError; the message of the failing
\* assertion names csv, which is not defined, and raises NameError
assert_unique_inds(lines, header, sep) ==
    LET read == csv_reader(lines, header, sep)
        inds == [i \in DOMAIN read.records |-> read.records[i][1]]
    IN  IF ~read.ok THEN "ValueError"
        ELSE IF Len(inds) # Cardinality(Range(inds)) THEN "NameError"
        ELSE None

\* add_person: MERGE (person:Person {ind: $ind}) SET person.sex = $sex
add_person(g, ind, sex) ==
    LET g1 == MergeNode(g, ind)
    IN  SetSex(g1, Match(g1, "Person", ind), sex)

\* add_child: MATCH the child, MERGE the parent, MERGE (child)-[:is_child]->(parent);
\* nothing for the parent "0"
add_child(g, child, parent) ==
    IF parent = "0" \/ Match(g, "Person", child) = {} THEN g
    ELSE LET g1 == MergeNode(g, parent)
         IN  MergeRel(g1, Match(g1, "Person", child), "is_child", Match(g1, "Person", parent))

\* add_parent: MATCH the child, MERGE the parent, MERGE (child)<-[:is_relation]-(parent);
\* nothing for the parent "0"
add_parent(g, child, parent, relation) ==
    IF parent = "0" \/ Match(g, "Person", child) = {} THEN g
    ELSE LET g1 == MergeNode(g, parent)
         IN  MergeRel(g1, Match(g1, "Person", parent), "is_" \o relation, Match(g1, "Person", child))

\* the body of the loop of populate_from_csv for one record
populate_record(g, record) ==
    LET ind == record[1]
        father == record[2]
        mother == record[3]
        sex == record[4]
        g1 == add_person(g, ind, sex)
        g2 == add_child(g1, ind, mother)
        g3 == add_parent(g2, ind, mother, "mother")
        g4 == add_parent(g3, ind, father, "father")
        g5 == add_parent(g4, ind, mother, "parent")
    IN  add_parent(g5, ind, father, "parent")

----------------------------------------------------------------------------
(* populate_from_csv.py: PopulateFromCsv. Its csv_reader and assert_unique_inds
   are those of build_db, line for line *)

\* MERGE (child)<-[:type]-(:Person {ind: x}) for the bound children: the
\* pattern is matched as a whole, and where no Person node with ind x has the
\* relationship to the child, a node and the relationship are created
RECURSIVE MergePattern(_, _, _, _)
MergePattern(g, children, type, x) ==
    IF children = {} THEN g
    ELSE LET child == CHOOSE c \in children : TRUE
             n == FreshId(g)
             g1 == IF \E q \in Match(g, "Person", x) : BagIn(<<q, type, child>>, g.rels)
                   THEN g
                   ELSE [node |-> g.node @@ (n :> [ind |-> x, sex |-> None, labels |-> {"Person"}]),
                         rels |-> g.rels (+) SetToBag({<<n, type, child>>})]
         IN  MergePattern(g1, children \ {child}, type, x)

\* PopulateFromCsv.add_parent: MATCH the child, MERGE the pattern; nothing for
\* the parent "0"
PopulateFromCsv_add_parent(g, child, parent, relation) ==
    IF parent = "0" THEN g
    ELSE MergePattern(g, Match(g, "Person", child), "is_" \o relation, parent)

\* the body of the loop of PopulateFromCsv.populate_from_csv for one record:
\* add_person (the MERGE and SET of build_db's) and add_parent for the mother
PopulateFromCsv_record(g, record) ==
    LET ind == record[1]
        mother == record[3]
        sex == record[4]
    IN  PopulateFromCsv_add_parent(add_person(g, ind, sex), ind, mother, "mother")

NoRecon == [live |-> FALSE, probands |-> <<>>, gen |-> Genealogy]

----------------------------------------------------------------------------
(* The inputs *)

\* the rows a pedigree CSV may hold when na marks an absent parent
Rows(na) == [ind : Ids, father : Fathers \cup {na}, mother : Mothers \cup {na}, sex : Sexes]

\* the CSV files of 1..n rows
CSVs(na, n) == UNION {[1..k -> Rows(na)] : k \in 1..n}

\* the header lines of a CSV file: the four columns, one of them left out, and
\* the four in another order with a fifth
Headers ==
    {CSV_COLUMNS,
     <<"ind", "father", "mother">>,
     <<"ind", "father", "sex">>,
     <<"ind", "mother", "sex">>,
     <<"father", "mother", "sex">>,
     <<"sex", "note", "mother", "father", "ind">>}

\* the files of a header line and no row or one row: what LOAD CSV WITH HEADERS
\* yields for the row is a map of the columns of the header
RowUnder(head, row) == [c \in Range(head) |-> IF c \in DOMAIN row THEN row[c] ELSE "x"]
HeadedFiles(na) ==
    [head : Headers, rows : {<<>>}]
    \cup {[head |-> head, rows |-> <<RowUnder(head, row)>>] :
             head \in Headers, row \in {r \in Rows(na) : r.ind = "3"}}

\* the arguments of create_index, and the errors of the store that are no ClientError
IndexNames == {"index_ind", "index_sex"}
IndexProperties == {"ind", "sex"}
Faults == {None, "ServiceUnavailable"}

\* the lines of text of a pedigree file: its header line, lines of four
\* fields, of five fields with blanks around some, of three fields, and a
\* blank line
HeaderLine == <<"i", "n", "d", ",", "f", "a", "t", "h", "e", "r", ",",
                "m", "o", "t", "h", "e", "r", ",", "s", "e", "x", "\n">>
TextLines ==
    {<<"1", ",", "0", ",", "0", ",", "F", "\n">>,
     <<"2", ",", "0", ",", "0", ",", "M", "\n">>,
     <<"3", ",", "1", ",", "2", ",", "F", "\n">>,
     <<"3", ",", " ", "1", ",", "2", " ", ",", "M", ",", "x", "\n">>,
     <<" ", "1", ",", "0", ",", "2", ",", "M", ",", ",", "\n">>,
     <<"3", ",", "1", ",", "2", "\n">>,
     <<"\n">>}

\* the text files of a header line and 1..n more lines
TextFiles(n) == {<<HeaderLine>> \o body : body \in UNION {[1..k -> TextLines] : k \in 1..n}}

\* the proband lists: up to MaxProbands identifiers, each list in one order
ProbandIds == Ids \cup {Stranger}
ProbandLists == {AnyOrder(S) : S \in {T \in SUBSET ProbandIds : Cardinality(T) <= MaxProbands}}

\* ReconstructGenealogy.__init__ reading probands_txt: probands = [], then for
\* each line, line.strip() and inds.append(line); inds is bound nowhere, so the
\* first line raises NameError and only a file of no lines leaves the list
RECURSIVE read_probands(_)
read_probands(lines) ==
    IF lines = <<>> THEN [raised |-> None, probands |-> <<>>]
    ELSE LET line == Text(Strip(Head(lines)))
         IN  [raised |-> "NameError", probands |-> <<>>]

\* the files of node labels: one column, named by the property to match, and
\* no, one or two lines, each an identifier, one that no node has, a sex or
\* an empty field
LabelHeaders == {<<"ind">>, <<"sex">>}
LabelFields(prop) == IF prop = "ind" THEN {"1", "2", Stranger} ELSE {"F", None}
LabelFiles(head) ==
    {<<>>} \cup {<<<<x>>>> : x \in LabelFields(head[1])}
           \cup {<<<<x>>, <<y>>>> : x \in LabelFields(head[1]), y \in LabelFields(head[1])}
MatchLabels == {"Person", "Founder"}
NewLabels == {"TestLabel"}

\* an argument of a call that is None, and one that is given
Absent == [given |-> FALSE, value |-> <<>>]
Given(v) == [given |-> TRUE, value |-> v]

\* the line of a proband file that holds an identifier, with the blanks a
\* file may have around it
ProbandLine(x) ==
    IF x = "2" THEN <<" ", x, "\n">> ELSE IF x = "3" THEN <<x, "\t", "\n">> ELSE <<x, "\n">>

\* the file with one line for each identifier of a proband list
ProbandFile(probands) == [i \in DOMAIN probands |-> ProbandLine(probands[i])]

----------------------------------------------------------------------------
(* The behaviours *)

Init ==
    /\ db = EmptyGraph
    /\ schema = {}
    /\ pc = "idle"
    /\ csv = <<>>
    /\ csv_header = <<>>
    /\ na_id \in NaIds
    /\ done = 0
    /\ prev = EmptyGraph
    /\ prev_csv = <<>>
    /\ rows_left = MaxRows
    /\ recon = NoRecon
    /\ gen = Genealogy
    /\ log = <<>>
    /\ raised = None
    /\ op = "none"
    /\ args = <<>>

\* BuildDB(uri, csv, na_id) is called with a file: check_csv_basic, then
\* create_index; an exception of either ends the call
BuildDB(head, file) ==
    LET checked == check_csv_basic(head, file, CSV_COLUMNS)
        indexed == create_index(schema, "index_ind", "Person", "ind", TRUE, None)
    IN  /\ pc = "idle"
        /\ ~recon.live
        /\ Len(file) <= rows_left
        /\ rows_left' = rows_left - Len(file)
        /\ csv' = file
        /\ csv_header' = head
        /\ prev' = db
        /\ prev_csv' = csv
        /\ log' = <<>>
        /\ op' = "BuildDB"
        /\ IF checked # None
           THEN raised' = checked /\ pc' = "idle" /\ schema' = schema
           ELSE /\ schema' = indexed.schema
                /\ raised' = indexed.raised
                /\ pc' = IF indexed.raised = None THEN "load_csv" ELSE "idle"
        /\ UNCHANGED <<db, na_id, done, recon, gen, args>>

\* BuildDB(uri, csv, na_id) is called again with the file of the last call
BuildDBAgain ==
    LET indexed == create_index(schema, "index_ind", "Person", "ind", TRUE, None)
    IN  /\ pc = "idle"
        /\ ~recon.live
        /\ raised = None
        /\ csv # <<>>
        /\ prev' = db
        /\ prev_csv' = csv
        /\ log' = <<>>
        /\ op' = "BuildDB"
        /\ schema' = indexed.schema
        /\ raised' = indexed.raised
        /\ pc' = IF indexed.raised = None THEN "load_csv" ELSE "idle"
        /\ UNCHANGED <<db, csv, csv_header, na_id, done, rows_left, recon, gen, args>>

\* load_csv, first query
LoadCsv ==
    /\ pc = "load_csv"
    /\ db' = LoadLines(db, csv)
    /\ pc' = "delete_na"
    /\ UNCHANGED <<schema, csv, csv_header, na_id, done, prev, prev_csv, rows_left, recon, gen,
                   log, raised, op, args>>

\* load_csv, second query
DetachDeleteNa ==
    /\ pc = "delete_na"
    /\ db' = DeleteNa(db, na_id)
    /\ pc' = "label_founders"
    /\ UNCHANGED <<schema, csv, csv_header, na_id, done, prev, prev_csv, rows_left, recon, gen,
                   log, raised, op, args>>

LabelFounders ==
    /\ pc = "label_founders"
    /\ db' = label_founders(db)
    /\ pc' = "label_leaves"
    /\ UNCHANGED <<schema, csv, csv_header, na_id, done, prev, prev_csv, rows_left, recon, gen,
                   log, raised, op, args>>

LabelLeaves ==
    /\ pc = "label_leaves"
    /\ db' = label_leaves(db)
    /\ pc' = "idle"
    /\ UNCHANGED <<schema, csv, csv_header, na_id, done, prev, prev_csv, rows_left, recon, gen,
                   log, raised, op, args>>

\* label_founders and label_leaves are run once more on the graph as it is
Relabel ==
    /\ pc = "idle"
    /\ op \in {"BuildDB", "relabel"}
    /\ db' = label_leaves(label_founders(db))
    /\ op' = "relabel"
    /\ UNCHANGED <<schema, pc, csv, csv_header, na_id, done, prev, prev_csv, rows_left, recon, gen,
                   log, raised, args>>

\* ReconstructGenealogy(uri, probands=probands)
Reconstruct(probands) ==
    /\ pc = "idle"
    /\ ~recon.live
    /\ \E built \in reconstruct_genealogy(db, probands) :
        /\ recon' = [live |-> TRUE, probands |-> probands, gen |-> built.gen]
        /\ log' = built.log
    /\ raised' = None
    /\ op' = "ReconstructGenealogy"
    /\ UNCHANGED <<db, schema, pc, csv, csv_header, na_id, done, prev, prev_csv, rows_left, gen, args>>

\* ReconstructGenealogy.close: the caller is done with the object
Close ==
    /\ recon.live
    /\ recon' = NoRecon
    /\ op' = "close"
    /\ UNCHANGED <<db, schema, pc, csv, csv_header, na_id, done, prev, prev_csv, rows_left, gen,
                   log, raised, args>>

\* ingestion and classification
Next ==
    \/ \E file \in CSVs(na_id, rows_left) : BuildDB(CSV_COLUMNS, file)
    \/ BuildDBAgain
    \/ LoadCsv
    \/ DetachDeleteNa
    \/ LabelFounders
    \/ LabelLeaves
    \/ Relabel

Spec == Init /\ [][Next]_vars

\* one ingestion, and reconstructions from the graph it leaves
NextRecon ==
    \/ \E file \in CSVs(na_id, rows_left) : rows_left = MaxRows /\ BuildDB(CSV_COLUMNS, file)
    \/ LoadCsv
    \/ DetachDeleteNa
    \/ LabelFounders
    \/ LabelLeaves
    \/ \E probands \in ProbandLists : Reconstruct(probands)
    \/ Close

SpecRecon == Init /\ [][NextRecon]_vars

\* the keys, records and other values that the calls on a Genealogy are given
GenKeys == {"1", "2", None}
GenRecords == [ind : GenKeys, father : {"0", "1"}, mother : {"0"}, sex : Sexes]
\* a tuple, which is no Record
NoRecord == [tuple |-> <<"1", "0", "0", "F">>]
GenValues == GenRecords \cup {NoRecord}

\* gen.add(record)
GenAdd(record) ==
    /\ op' = "add"
    /\ args' = <<record>>
    /\ raised' = add_raises(record)
    /\ IF add_raises(record) = None
       THEN gen' = add(gen, record) /\ log' = setitem_warning(gen, record.ind)
       ELSE gen' = gen /\ log' = <<>>
    /\ UNCHANGED <<db, schema, pc, csv, csv_header, na_id, done, prev, prev_csv, rows_left, recon>>

\* gen[key] = value
GenSetItem(key, value) ==
    /\ op' = "setitem"
    /\ args' = <<key, value>>
    /\ raised' = setitem_raises(key, value)
    /\ IF setitem_raises(key, value) = None
       THEN gen' = setitem(gen, key, value) /\ log' = setitem_warning(gen, key)
       ELSE gen' = gen /\ log' = <<>>
    /\ UNCHANGED <<db, schema, pc, csv, csv_header, na_id, done, prev, prev_csv, rows_left, recon>>

\* del gen[key]
GenDelItem(key) ==
    /\ op' = "delitem"
    /\ args' = <<key>>
    /\ raised' = delitem_raises(gen, key)
    /\ gen' = IF delitem_raises(gen, key) = None THEN delitem(gen, key) ELSE gen
    /\ log' = <<>>
    /\ UNCHANGED <<db, schema, pc, csv, csv_header, na_id, done, prev, prev_csv, rows_left, recon>>

\* the calls on one Genealogy
NextGen ==
    \/ \E record \in GenValues : GenAdd(record)
    \/ \E key \in GenKeys : \E value \in GenValues : GenSetItem(key, value)
    \/ \E key \in GenKeys : GenDelItem(key)

SpecGen == Init /\ [][NextGen]_vars

\* create_index(index_name, node_label, node_property, unique) is called on a builder
CreateIndex(index_name, node_label, node_property, unique, fault) ==
    LET indexed == create_index(schema, index_name, node_label, node_property, unique, fault)
    IN  /\ pc = "idle"
        /\ schema' = indexed.schema
        /\ raised' = indexed.raised
        /\ op' = "create_index"
        /\ args' = <<index_name, node_label, node_property, unique, fault>>
        /\ UNCHANGED <<db, pc, csv, csv_header, na_id, done, prev, prev_csv, rows_left, recon,
                       gen, log>>

\* the start of BuildDB on files of any header, and the indexes of the store
NextStart ==
    \/ \E file \in HeadedFiles(na_id) : rows_left = MaxRows /\ BuildDB(file.head, file.rows)
    \/ LoadCsv
    \/ DetachDeleteNa
    \/ LabelFounders
    \/ LabelLeaves
    \/ \E index_name \in IndexNames : \E node_property \in IndexProperties :
        \E unique \in BOOLEAN : \E fault \in Faults :
            CreateIndex(index_name, "Person", node_property, unique, fault)

SpecStart == Init /\ [][NextStart]_vars

\* the running BuildDB is interrupted (the process is killed, the connection
\* is lost): the queries that are over stay, and of the LOAD CSV query the
\* rows that it has committed
Interrupt ==
    /\ pc \in {"load_csv", "delete_na", "label_founders", "label_leaves"}
    /\ \E k \in Committed(csv) :
        IF pc = "load_csv"
        THEN db' = LoadLines(db, SubSeq(csv, 1, k)) /\ done' = k
        ELSE db' = db /\ done' = Len(csv)
    /\ pc' = "idle"
    /\ raised' = "Interrupted"
    /\ op' = "interrupted"
    /\ UNCHANGED <<schema, csv, csv_header, na_id, prev, prev_csv, rows_left, recon, gen,
                   log, args>>

\* the interrupted BuildDB call is made again and runs to its end
Retry ==
    LET indexed == create_index(schema, "index_ind", "Person", "ind", TRUE, None)
    IN  /\ pc = "idle"
        /\ op = "interrupted"
        /\ schema' = indexed.schema
        /\ raised' = indexed.raised
        /\ db' = IF indexed.raised = None THEN RunBuildDB(db, csv, na_id) ELSE db
        /\ log' = <<>>
        /\ op' = "retry"
        /\ UNCHANGED <<pc, csv, csv_header, na_id, done, prev, prev_csv, rows_left, recon, gen,
                       args>>

\* one ingestion, interrupted anywhere and made again
NextRetry ==
    \/ \E file \in CSVs(na_id, rows_left) : rows_left = MaxRows /\ BuildDB(CSV_COLUMNS, file)
    \/ LoadCsv
    \/ DetachDeleteNa
    \/ LabelFounders
    \/ LabelLeaves
    \/ Interrupt
    \/ Retry

SpecRetry == Init /\ [][NextRetry]_vars

\* build_db.BuildDB(uri, csv): assert_unique_inds reads the whole file, then
\* populate_from_csv starts
BuildDbRows(file) ==
    LET failed == assert_unique_inds(file, TRUE, ",")
    IN  /\ pc = "idle"
        /\ Len(file) - 1 <= rows_left
        /\ rows_left' = rows_left - (Len(file) - 1)
        /\ csv' = file
        /\ prev' = db
        /\ done' = 0
        /\ log' = <<>>
        /\ raised' = failed
        /\ pc' = IF failed = None THEN "populate" ELSE "idle"
        /\ op' = "build_db"
        /\ UNCHANGED <<db, schema, csv_header, na_id, prev_csv, recon, gen, args>>

\* populate_from_csv: the next record that csv_reader yields is written; the
\* unpacking in csv_reader raises ValueError for a line of fewer than four fields
Populate ==
    LET records == csv_reader(csv, TRUE, ",").records
        record == records[done + 1]
    IN  /\ pc = "populate"
        /\ IF Len(record) < 4
           THEN /\ raised' = "ValueError"
                /\ pc' = "idle"
                /\ UNCHANGED <<db, done>>
           ELSE /\ db' = populate_record(db, record)
                /\ done' = done + 1
                /\ pc' = IF done + 1 = Len(records) THEN "idle" ELSE "populate"
                /\ UNCHANGED raised
        /\ UNCHANGED <<schema, csv, csv_header, na_id, prev, prev_csv, rows_left, recon, gen,
                       log, op, args>>

\* the row-by-row builder
NextRows ==
    \/ \E file \in TextFiles(rows_left) : BuildDbRows(file)
    \/ Populate

SpecRows == Init /\ [][NextRows]_vars

\* ReconstructGenealogy(uri, probands, probands_txt): the two assertions, the
\* reading of probands_txt when probands is None, then reconstruct_genealogy
ReconstructGenealogy(probands, probands_txt) ==
    LET read == IF probands.given THEN [raised |-> None, probands |-> probands.value]
                ELSE read_probands(probands_txt.value)
        failed == IF ~probands.given /\ ~probands_txt.given THEN "AssertionError"
                  ELSE IF probands.given /\ probands_txt.given THEN "AssertionError"
                  ELSE read.raised
    IN  /\ pc = "idle"
        /\ ~recon.live
        /\ op' = "ReconstructGenealogy"
        /\ args' = <<probands, probands_txt>>
        /\ raised' = failed
        /\ IF failed # None
           THEN UNCHANGED <<recon, log>>
           ELSE \E built \in reconstruct_genealogy(db, read.probands) :
                    /\ recon' = [live |-> TRUE, probands |-> read.probands, gen |-> built.gen]
                    /\ log' = built.log
        /\ UNCHANGED <<db, schema, pc, csv, csv_header, na_id, done, prev, prev_csv, rows_left,
                       gen>>

\* one ingestion, then reconstructions called with a list, a file, both or neither
NextForms ==
    \/ \E file \in CSVs(na_id, rows_left) : rows_left = MaxRows /\ BuildDB(CSV_COLUMNS, file)
    \/ LoadCsv
    \/ DetachDeleteNa
    \/ LabelFounders
    \/ LabelLeaves
    \/ \E probands \in ProbandLists :
        csv # <<>> /\ ReconstructGenealogy(Given(probands), Absent)
    \/ \E probands \in ProbandLists :
        csv # <<>> /\ ReconstructGenealogy(Absent, Given(ProbandFile(probands)))
    \/ \E probands \in ProbandLists :
        csv # <<>> /\ ReconstructGenealogy(Given(probands), Given(ProbandFile(probands)))
    \/ csv # <<>> /\ ReconstructGenealogy(Absent, Absent)
    \/ Close

SpecForms == Init /\ [][NextForms]_vars

\* PopulateFromCsv(uri, csv): assert_unique_inds reads the whole file
PopulateFromCsv(file) ==
    LET failed == assert_unique_inds(file, TRUE, ",")
    IN  /\ pc = "idle"
        /\ Len(file) - 1 <= rows_left
        /\ rows_left' = rows_left - (Len(file) - 1)
        /\ csv' = file
        /\ prev' = db
        /\ done' = 0
        /\ log' = <<>>
        /\ raised' = failed
        /\ pc' = IF failed = None THEN "constructed" ELSE "idle"
        /\ op' = "PopulateFromCsv"
        /\ UNCHANGED <<db, schema, csv_header, na_id, prev_csv, recon, gen, args>>

\* PopulateFromCsv.populate_from_csv, which the caller runs on the object: the
\* records that csv_reader yields are written in order, up to the line of
\* fewer than four fields whose unpacking raises ValueError
RECURSIVE PopulateAll(_, _)
PopulateAll(g, records) ==
    IF records = <<>> \/ Len(Head(records)) < 4 THEN g
    ELSE PopulateAll(PopulateFromCsv_record(g, Head(records)), Tail(records))

populate_from_csv ==
    LET records == csv_reader(csv, TRUE, ",").records
    IN  /\ pc = "constructed"
        /\ db' = PopulateAll(db, records)
        /\ done' = Len(records)
        /\ raised' = IF \E i \in DOMAIN records : Len(records[i]) < 4 THEN "ValueError" ELSE None
        /\ pc' = "idle"
        /\ op' = "populate_from_csv"
        /\ UNCHANGED <<schema, csv, csv_header, na_id, prev, prev_csv, rows_left, recon, gen,
                       log, args>>

\* the script populate_from_csv.py, run on file after file
NextPopulate ==
    \/ \E file \in TextFiles(rows_left) : PopulateFromCsv(file)
    \/ populate_from_csv

SpecPopulate == Init /\ [][NextPopulate]_vars

\* the database after BuildDB has ingested a pedigree and closed
InitBuilt ==
    /\ na_id \in NaIds
    /\ \E file \in CSVs(na_id, MaxRows) : db = RunBuildDB(EmptyGraph, file, na_id)
    /\ schema = create_index({}, "index_ind", "Person", "ind", TRUE, None).schema
    /\ pc = "idle"
    /\ csv = <<>>
    /\ csv_header = <<>>
    /\ done = 0
    /\ prev = EmptyGraph
    /\ prev_csv = <<>>
    /\ rows_left = 0
    /\ recon = NoRecon
    /\ gen = Genealogy
    /\ log = <<>>
    /\ raised = None
    /\ op = "none"
    /\ args = <<>>

\* AddNodeLabels(uri, csv, match_label, new_label): check_csv_basic with no
\* columns named, the first column of the header as the property to match,
\* then load_csv
AddNodeLabels(head, file, match_label, new_label) ==
    LET checked == check_csv_basic(head, file, <<>>)
        prop_match == head[1]
    IN  /\ pc = "idle"
        /\ csv' = file
        /\ csv_header' = head
        /\ prev' = db
        /\ args' = <<match_label, new_label>>
        /\ raised' = checked
        /\ db' = IF checked = None
                 THEN AddNodeLabels_load_csv(db, file, match_label, prop_match, new_label)
                 ELSE db
        /\ log' = <<>>
        /\ op' = "AddNodeLabels"
        /\ UNCHANGED <<schema, pc, na_id, done, prev_csv, rows_left, recon, gen>>

\* one file of labels added to the nodes of an ingested pedigree
NextLabels ==
    \E head \in LabelHeaders : \E file \in LabelFiles(head) :
        \E match_label \in MatchLabels, new_label \in NewLabels :
            op = "none" /\ AddNodeLabels(head, file, match_label, new_label)

SpecLabels == InitBuilt /\ [][NextLabels]_vars

\* reconstructions from the database of an ingested pedigree
NextBuilt ==
    \/ \E probands \in ProbandLists : Reconstruct(probands)
    \/ Close

SpecBuilt == InitBuilt /\ [][NextBuilt]_vars

----------------------------------------------------------------------------
(* What the claims speak of *)

\* a BuildDB call has run to its end and none is running
Built == pc = "idle" /\ csv # <<>> /\ raised = None

\* the identifiers at the other end of the relationships of a type into / out of the nodes of x
SourcesInto(g, x, type) ==
    {g.node[e[1]].ind : e \in {r \in BagToSet(g.rels) : r[2] = type /\ g.node[r[3]].ind = x}}
TargetsFrom(g, x, type) ==
    {g.node[e[3]].ind : e \in {r \in BagToSet(g.rels) : r[2] = type /\ g.node[r[1]].ind = x}}

\* the nodes that carry a label
Labelled(g, label) == {n \in DOMAIN g.node : label \in g.node[n].labels}

\* the rows of a file for x
RowsOf(file, x) == {i \in DOMAIN file : file[i].ind = x}

----------------------------------------------------------------------------
(* C4 *)

\* the file of the last BuildDB call is the file of the call before it
IngestedTwice == Built /\ op = "BuildDB" /\ prev_csv = csv

\* C4: idempotent ingestion. When BuildDB has run on the same pedigree twice in
\* a row, the second run has left the graph as the first one left it: the same
\* nodes with the same ind and sex, the same typed relationships, none of them
\* twice between the same ordered pair, and the same node and edge counts.
C4_IdempotentIngestion ==
    IngestedTwice =>
        /\ DOMAIN db.node = DOMAIN prev.node
        /\ \A n \in DOMAIN db.node :
            db.node[n].ind = prev.node[n].ind /\ db.node[n].sex = prev.node[n].sex
        /\ BagToSet(db.rels) = BagToSet(prev.rels)
        /\ \A e \in BagToSet(db.rels) : CopiesIn(e, db.rels) = 1
        /\ Cardinality(DOMAIN db.node) = Cardinality(DOMAIN prev.node)
        /\ BagCardinality(db.rels) = BagCardinality(prev.rels)

\* a pedigree with a known parent has been ingested twice in a row
C4_Witness ==
    /\ IngestedTwice
    /\ \E i \in DOMAIN csv : csv[i].father # na_id
    /\ BagCardinality(db.rels) >= 2

----------------------------------------------------------------------------
(* C5 *)

\* C5: sentinel never persisted. When an ingestion with sentinel na_id is over,
\* no node has the identifier na_id and every relationship starts and ends at
\* a node that is there.
C5_SentinelNeverPersisted ==
    Built =>
        /\ \A n \in DOMAIN db.node : db.node[n].ind # na_id
        /\ \A e \in BagToSet(db.rels) : e[1] \in DOMAIN db.node /\ e[3] \in DOMAIN db.node

\* a pedigree that marks an absent father and names a mother has been ingested
C5_Witness ==
    /\ Built
    /\ \E i \in DOMAIN csv : csv[i].father = na_id /\ csv[i].mother # na_id
    /\ db.rels # EmptyBag

----------------------------------------------------------------------------
(* C6, C7 *)

\* C6: founder rule. After any sequence of ingestions a Person node carries
\* Founder if and only if no is_child relationship leaves it.
C6_FounderRule ==
    Built => \A n \in Labelled(db, "Person") :
        "Founder" \in db.node[n].labels <=> ~HasOut(db, n, "is_child")

\* C7: leaf rule. After any sequence of ingestions a Person node carries Leaf
\* if and only if no is_child relationship enters it.
C7_LeafRule ==
    Built => \A n \in Labelled(db, "Person") :
        "Leaf" \in db.node[n].labels <=> ~HasIn(db, n, "is_child")

----------------------------------------------------------------------------
(* C8 *)

LabelsOf(g) == [n \in DOMAIN g.node |-> g.node[n].labels]

\* C8: classification is idempotent and additive. Running label_founders and
\* label_leaves again with no ingestion in between changes no label set, every
\* node has its Person label afterwards, and the numbers of Person, Founder and
\* Leaf nodes stay what they were.
C8_ClassificationIdempotent ==
    [][op' = "relabel" =>
        /\ LabelsOf(db') = LabelsOf(db)
        /\ \A n \in DOMAIN db'.node : "Person" \in db'.node[n].labels
        /\ \A label \in {"Person", "Founder", "Leaf"} :
            Cardinality(Labelled(db', label)) = Cardinality(Labelled(db, label))]_vars

\* the labels were set a second time and a node carries Founder and Leaf at once
C8_Witness ==
    /\ op = "relabel"
    /\ \E n \in DOMAIN db.node : {"Person", "Founder", "Leaf"} \subseteq db.node[n].labels
    /\ \E n \in DOMAIN db.node : "Founder" \notin db.node[n].labels

----------------------------------------------------------------------------
(* C9, C10 *)

\* x has one record in the last file, and the file of the call before holds
\* another record for x
Reingested(x) ==
    /\ Built
    /\ op = "BuildDB"
    /\ Cardinality(RowsOf(csv, x)) = 1
    /\ \E i \in RowsOf(prev_csv, x) : \E j \in RowsOf(csv, x) : prev_csv[i] # csv[j]

Known(parent) == IF parent = na_id THEN {} ELSE {parent}

\* C9: last write wins across calls. When x is ingested in one call and with
\* another record in a later call, the graph holds the later record alone: the
\* later sex, an is_father relationship into x from the later father only, an
\* is_mother relationship from the later mother only, and is_child
\* relationships out of x to these two only.
C9_LastWriteWins ==
    \A x \in Ids : Reingested(x) =>
        LET r == csv[CHOOSE j \in RowsOf(csv, x) : TRUE]
        IN  /\ \A n \in Match(db, "Person", x) : db.node[n].sex = r.sex
            /\ SourcesInto(db, x, "is_father") = Known(r.father)
            /\ SourcesInto(db, x, "is_mother") = Known(r.mother)
            /\ TargetsFrom(db, x, "is_child") = Known(r.father) \cup Known(r.mother)

\* the file of the last call holds x twice, the second time with another sex
DuplicateSex(x) ==
    /\ Built
    /\ op = "BuildDB"
    /\ Len(csv) = 2
    /\ csv[1].ind = x
    /\ csv[2].ind = x
    /\ csv[1].sex # csv[2].sex

\* C10: a duplicate identifier with another sex. Ingesting a record for x and
\* then a record for x with another sex leaves one node for x, with the later
\* sex, and logs exactly one duplicate-identifier warning.
C10_DuplicateWarned ==
    \A x \in Ids : DuplicateSex(x) =>
        /\ Cardinality(Match(db, "Person", x)) = 1
        /\ \A n \in Match(db, "Person", x) : db.node[n].sex = csv[2].sex
        /\ Len(log) = 1

----------------------------------------------------------------------------
(* C1, C2 *)

\* the pairs (child node, parent node) of the is_child relationships, and the
\* pairs joined by a chain of them
IsChild(g) == {<<e[1], e[3]>> : e \in {r \in BagToSet(g.rels) : r[2] = "is_child"}}

RECURSIVE Chains(_)
Chains(R) ==
    LET joined == R \cup {<<p[1][1], p[2][2]>> : p \in {q \in R \X R : q[1][2] = q[2][1]}}
    IN  IF joined = R THEN R ELSE Chains(joined)

\* the identifiers of the ancestors in the graph of the nodes with identifier x
AncestorsOf(g, x) ==
    {g.node[p[2]].ind : p \in {q \in Chains(IsChild(g)) : g.node[q[1]].ind = x}}

Members == DOMAIN recon.gen.data

\* C1: closure completeness. Every ancestor in the graph, over any number of
\* is_child relationships, of an individual of the reconstructed Genealogy is
\* in that Genealogy too.
C1_ClosureComplete ==
    recon.live => \A x \in Members : AncestorsOf(db, x) \subseteq Members

\* a proband is reconstructed with a grandparent that is no parent of it
C1_Witness ==
    /\ recon.live
    /\ Len(recon.probands) = 1
    /\ \E y \in Members : \E z \in Members :
        /\ TargetsFrom(db, recon.probands[1], "is_child") = {y}
        /\ TargetsFrom(db, y, "is_child") = {z}
        /\ Cardinality({recon.probands[1], y, z}) = 3

\* C2: minimality. Every individual of the reconstructed Genealogy is a
\* requested proband or an ancestor of one, and is there once: under its own
\* identifier, and size counts each identifier once.
C2_Minimal ==
    recon.live =>
        /\ Members \subseteq
            Range(recon.probands) \cup UNION {AncestorsOf(db, x) : x \in Range(recon.probands)}
        /\ \A x \in Members : recon.gen.data[x].ind = x
        /\ recon.gen.size = Cardinality(Members)

\* a proband with a parent and with a child is reconstructed: the child is left out
C2_Witness ==
    /\ recon.live
    /\ Len(recon.probands) = 1
    /\ Cardinality(Members) = 2
    /\ \E x \in Ids \ Members : recon.probands[1] \in TargetsFrom(db, x, "is_child")

----------------------------------------------------------------------------
(* C3 *)

Tuple(r) == <<r.ind, r.father, r.mother, r.sex>>

\* the file names each individual once, every parent it names has a line of
\* its own, and no individual is its own ancestor
ValidPedigree(file, na) ==
    LET parent == {<<file[i].ind, file[i].father>> : i \in {j \in DOMAIN file : file[j].father # na}}
                  \cup {<<file[i].ind, file[i].mother>> : i \in {j \in DOMAIN file : file[j].mother # na}}
    IN  /\ file # <<>>
        /\ \A i \in DOMAIN file : \A j \in DOMAIN file : file[i].ind = file[j].ind => i = j
        /\ \A p \in parent : RowsOf(file, p[2]) # {}
        /\ \A p \in Chains(parent) : p[1] # p[2]

\* the Genealogy read back from the file that write_csv wrote
Reparsed(g) ==
    LET read == csv_reader(write_csv(g), TRUE, ",")
        RECURSIVE AddAll(_, _)
        AddAll(acc, recs) ==
            IF recs = <<>> THEN acc
            ELSE AddAll(add(acc, Record(Head(recs)[1], Head(recs)[2], Head(recs)[3], Head(recs)[4])),
                        Tail(recs))
    IN  [ok |-> read.ok, gen |-> IF read.ok THEN AddAll(Genealogy, read.records) ELSE Genealogy]

\* the probands of the reconstruction are the individuals labelled Leaf
FromLeaves ==
    /\ recon.live
    /\ Range(recon.probands) = {db.node[n].ind : n \in Labelled(db, "Leaf")}

\* C3: round trip. A valid pedigree with unique identifiers, ingested, then
\* reconstructed from all its Leaf identifiers, written and read back, gives
\* the (ind, father, mother, sex) tuples of the pedigree.
C3_RoundTrip ==
    (FromLeaves /\ ValidPedigree(csv, na_id)) =>
        LET back == Reparsed(recon.gen)
        IN  /\ back.ok
            /\ {Tuple(back.gen.data[x]) : x \in DOMAIN back.gen.data} = {Tuple(csv[i]) : i \in DOMAIN csv}

\* C3 where the sentinel is the default "0"
C3_RoundTripDefaultNa == na_id = "0" => C3_RoundTrip

\* a pedigree of a founder and its child has gone round
C3_Witness ==
    /\ FromLeaves
    /\ ValidPedigree(csv, na_id)
    /\ na_id = "0"
    /\ Cardinality(Members) = 2
    /\ db.rels # EmptyBag

----------------------------------------------------------------------------
(* C11, C12 *)

\* C11: Genealogy size invariant. After any calls of add, __setitem__ and
\* __delitem__, those that raise included, size is the number of identifiers
\* that data holds.
C11_SizeInvariant == gen.size = Cardinality(DOMAIN gen.data)

\* a delete has raised for a key that is not there and has left the one
\* record that is stored
C11_Witness ==
    /\ op = "delitem"
    /\ raised = "KeyError"
    /\ gen.size = 1

\* C12: Genealogy overwrite. Adding a record does not raise and stores the
\* record; when its identifier was a key already, size stays and exactly one
\* warning is logged; when it is new, no warning is logged and size grows
\* by one.
C12_Overwrite ==
    [][(op' = "add" /\ add_raises(args'[1]) = None) =>
        LET record == args'[1]
        IN  /\ raised' = None
            /\ gen'.data[record.ind] = record
            /\ IF record.ind \in DOMAIN gen.data
               THEN gen'.size = gen.size /\ log' = <<<<"overwrite", record.ind>>>>
               ELSE gen'.size = gen.size + 1 /\ log' = <<>>]_vars

\* a record has been added over another one while a second record is stored
C12_Witness ==
    /\ op = "add"
    /\ log # <<>>
    /\ gen.size = 2

----------------------------------------------------------------------------
(* C13, C14 *)

\* C13: an empty proband set is fatal. A reconstruction that is asked for with
\* an empty proband list raises and produces no Genealogy: a call that returns
\* with a Genealogy was given at least one proband.
C13_EmptyProbandsFatal ==
    (op = "ReconstructGenealogy" /\ recon.probands = <<>>) => (raised # None /\ ~recon.live)

\* the requested probands that the graph holds, and how many it does not hold
Found == {x \in Range(recon.probands) : Match(db, "Person", x) # {}}
NMissing == Cardinality(Range(recon.probands) \ Found)
MissingWarnings == {i \in DOMAIN log : log[i][1] = "missing"}

\* C14: missing probands are recoverable. When k >= 1 of the requested
\* probands are not in the graph, reconstruct_genealogy does not raise, the
\* Genealogy holds the probands that are there and their ancestors and nothing
\* else, and one warning is logged that says k are missing; when none is
\* missing, no such warning is logged.
C14_MissingProbandsWarned ==
    (op = "ReconstructGenealogy" /\ recon.live) =>
        /\ raised = None
        /\ Members = Found \cup UNION {AncestorsOf(db, x) : x \in Found}
        /\ NMissing >= 1 =>
            /\ Cardinality(MissingWarnings) = 1
            /\ \A i \in MissingWarnings : log[i][2] = NMissing
        /\ NMissing = 0 => MissingWarnings = {}

----------------------------------------------------------------------------
(* C15 *)

\* the fields of a line of text: one more than it has separators
FieldCount(line) == 1 + Cardinality({i \in DOMAIN Strip(line) : Strip(line)[i] = ","})

\* the lines of a text file after its header, and a line of fewer than four fields among them
Body(file) == {i \in DOMAIN file : i > 1}
Short(file) == \E i \in Body(file) : FieldCount(file[i]) < 4

\* the k-th field of a line, without the blanks around it
Field(line, k) == Text(Strip(Split(Strip(line), ",")[k]))

\* no two lines of the file name the same individual
UniqueInds(file) ==
    \A i \in Body(file) : \A j \in Body(file) : Field(file[i], 1) = Field(file[j], 1) => i = j

\* C15: malformed rows in the row-by-row builder. A file with a line of fewer
\* than four fields makes the call raise and the call writes no node and no
\* relationship, whatever the other lines are; a line of more than four fields
\* raises nothing and is ingested by its first four fields.
C15_MalformedRows ==
    op = "build_db" =>
        /\ Short(csv) => (raised # None /\ pc = "idle" /\ db = prev)
        /\ (~Short(csv) /\ UniqueInds(csv)) =>
            /\ raised = None
            /\ pc = "idle" =>
                \A i \in Body(csv) : \E n \in Match(db, "Person", Field(csv[i], 1)) :
                    /\ db.node[n].sex = Field(csv[i], 4)
                    /\ {Field(csv[i], 3)} \ {"0"} \subseteq SourcesInto(db, Field(csv[i], 1), "is_mother")
                    /\ {Field(csv[i], 2)} \ {"0"} \subseteq SourcesInto(db, Field(csv[i], 1), "is_father")

\* a file of a line of more than four fields and then a line of three fields
\* has been refused
C15_Witness ==
    /\ op = "build_db"
    /\ Len(csv) = 3
    /\ FieldCount(csv[2]) > 4
    /\ FieldCount(csv[3]) = 3
    /\ raised = "ValueError"

----------------------------------------------------------------------------
(* C16, C17 *)

\* a header that lacks one of ind, father, mother, sex
MissingColumn(head) == \E i \in DOMAIN CSV_COLUMNS : CSV_COLUMNS[i] \notin Range(head)

\* C16: missing columns are fatal at startup. When BuildDB is called on a file
\* whose header lacks one of ind, father, mother, sex, or that has no data row,
\* the call raises and ends, and leaves the indexes and constraints, the nodes,
\* the relationships and the labels as they were.
C16_MissingColumnsFatal ==
    [][(pc = "idle" /\ op' = "BuildDB" /\ (MissingColumn(csv_header') \/ csv' = <<>>)) =>
        /\ raised' # None
        /\ pc' = "idle"
        /\ schema' = schema
        /\ db' = db]_vars

\* BuildDB has raised on a file with a data row and no sex column, and the
\* store has no constraint and no node
C16_Witness ==
    /\ op = "BuildDB"
    /\ raised = "AssertionError"
    /\ csv # <<>>
    /\ "sex" \notin Range(csv_header)
    /\ schema = {}
    /\ db = EmptyGraph

\* C17: index creation is idempotent. When create_index is called while the
\* store holds an index or constraint of the kind asked for on the same label
\* and property, or one of that kind with the same name, it does not raise and
\* leaves the indexes and constraints as they were; an error of the store that
\* is none of these is raised to the caller.
C17_IndexIdempotent ==
    [][op' = "create_index" =>
        LET kind == IF args'[4] THEN "constraint" ELSE "index"
            there == {r \in schema : r.kind = kind /\
                        \/ r.label = args'[2] /\ r.property = args'[3]
                        \/ r.name = args'[1]}
        IN  /\ (args'[5] = None /\ there # {}) => (raised' = None /\ schema' = schema)
            /\ args'[5] # None => raised' = args'[5]]_vars

----------------------------------------------------------------------------
(* C18 *)

\* a graph as its individuals and what joins them: the (ind, sex, labels) of
\* the nodes and the (ind, type, ind) of the relationships
View(g) ==
    [nodes |-> {g.node[n] : n \in DOMAIN g.node},
     rels |-> {<<g.node[e[1]].ind, e[2], g.node[e[3]].ind>> : e \in BagToSet(g.rels)}]

\* no two nodes with one ind and no relationship twice
NoDuplicates(g) ==
    /\ \A n \in DOMAIN g.node : \A m \in DOMAIN g.node : g.node[n].ind = g.node[m].ind => n = m
    /\ \A e \in BagToSet(g.rels) : CopiesIn(e, g.rels) = 1

\* C18: retry convergence. When a BuildDB ingestion has been interrupted at
\* any point and the same ingestion has then been run again from scratch to
\* its end, the graph is the graph that one uninterrupted run gives: the same
\* nodes, properties, typed relationships and labels, with no sentinel node
\* and no node or relationship twice.
C18_RetryConverges ==
    op = "retry" =>
        LET whole == RunBuildDB(prev, csv, na_id)
        IN  /\ raised = None
            /\ View(db) = View(whole)
            /\ Cardinality(DOMAIN db.node) = Cardinality(DOMAIN whole.node)
            /\ BagCardinality(db.rels) = BagCardinality(whole.rels)
            /\ NoDuplicates(db)
            /\ \A n \in DOMAIN db.node : db.node[n].ind # na_id

\* the ingestion of two rows was interrupted when one row was committed, with
\* the sentinel node in the graph, and has been run again
C18_Witness ==
    /\ op = "retry"
    /\ Len(csv) = 2
    /\ done = 1
    /\ csv[1].father = na_id
    /\ csv[2].mother # na_id
    /\ db.rels # EmptyBag

----------------------------------------------------------------------------
(* C19, C20 *)

\* the graph without its labels: the nodes with ind and sex, and the relationships
Structure(g) ==
    [node |-> [n \in DOMAIN g.node |-> [ind |-> g.node[n].ind, sex |-> g.node[n].sex]],
     rels |-> g.rels]

\* C19: classification and reconstruction leave the genealogy unchanged.
\* label_founders, label_leaves and ReconstructGenealogy create and delete no
\* node, add and remove no relationship and change no ind and no sex; a node
\* goes only when the sentinel is removed after the ingestion, and it is a
\* node of the sentinel then.
C19_OnlySentinelDeleted ==
    [][/\ (pc \in {"label_founders", "label_leaves"} \/ op' = "ReconstructGenealogy") =>
            Structure(db') = Structure(db)
       /\ \A n \in DOMAIN db.node \ DOMAIN db'.node :
            pc = "delete_na" /\ db.node[n].ind = na_id]_vars

\* a graph with a founder, a leaf and a relationship has been labelled and
\* reconstructed from
C19_Witness ==
    /\ recon.live
    /\ Members # {}
    /\ db.rels # EmptyBag
    /\ Labelled(db, "Founder") # {}
    /\ Labelled(db, "Leaf") # {}
    /\ Labelled(db, "Founder") # Labelled(db, "Leaf")

\* the (parent node, child node) pairs of the relationships of a type
Pairs(g, type) == {<<e[1], e[3]>> : e \in {r \in BagToSet(g.rels) : r[2] = type}}

\* C20: is_parent is the union of is_father and is_mother. After load_csv has
\* ingested a pedigree there is an is_parent relationship from a parent to a
\* child exactly where there is an is_father or an is_mother relationship.
C20_IsParentUnion ==
    Built => Pairs(db, "is_parent") = Pairs(db, "is_father") \cup Pairs(db, "is_mother")

\* the identifiers of a proband file: its lines, each without the blanks around it
RECURSIVE Identifiers(_)
Identifiers(lines) ==
    IF lines = <<>> THEN <<>>
    ELSE LET line == Text(Strip(Head(lines)))
             rest == Identifiers(Tail(lines))
         IN  <<line>> \o rest

\* the call of ReconstructGenealogy that has just returned or raised
Called == op = "ReconstructGenealogy"

\* C21: proband input forms are equivalent. ReconstructGenealogy given
\* probands_txt, a file with one identifier per line, builds a Genealogy that
\* the same identifiers given as the probands list build, and a call with
\* neither or both of probands and probands_txt fails and builds nothing.
C21_ProbandFormsEquivalent ==
    Called =>
        /\ (~args[1].given /\ args[2].given) =>
            LET probands == Identifiers(args[2].value)
            IN  /\ raised = None
                /\ recon.live
                /\ recon.gen \in {built.gen : built \in reconstruct_genealogy(db, probands)}
        /\ (args[1].given = args[2].given) =>
            raised = "AssertionError" /\ ~recon.live /\ log = <<>>


\* the nodes of g that carry the label and whose property prop is among the values
Matching(g, label, prop, values) ==
    {n \in DOMAIN g.node :
        /\ label \in g.node[n].labels
        /\ prop \in DOMAIN g.node[n]
        /\ \E v \in values : v # None /\ g.node[n][prop] = v}

\* the values of the first column of a file
Column(file) == {file[i][1] : i \in DOMAIN file}

\* C22: AddNodeLabels labels exactly the matched nodes. After AddNodeLabels
\* has run with match label L and new label N on a graph where no node had N,
\* the nodes that carry N are the L-nodes whose match property is a value of
\* the file, as many as there are identifiers of the file that match; the
\* nodes and relationships are those of before, and every node has the
\* properties and labels it had, N the only label added.
C22_LabelsExactlyMatched ==
    (op = "AddNodeLabels" /\ raised = None /\ Labelled(prev, args[2]) = {}) =>
        LET matched == Matching(prev, args[1], csv_header[1], Column(csv))
        IN  /\ Labelled(db, args[2]) = matched
            /\ csv_header[1] = "ind" =>
                Cardinality(matched)
                    = Cardinality({v \in Column(csv) : Match(prev, args[1], v) # {}})
            /\ DOMAIN db.node = DOMAIN prev.node
            /\ db.rels = prev.rels
            /\ \A n \in DOMAIN db.node :
                /\ db.node[n].ind = prev.node[n].ind
                /\ db.node[n].sex = prev.node[n].sex
                /\ prev.node[n].labels \subseteq db.node[n].labels
                /\ db.node[n].labels \subseteq prev.node[n].labels \cup {args[2]}

\* a file of an identifier of a Founder and of an identifier that no node has
\* was matched against the Founder nodes: the one Founder has the new label
\* beside Person, Founder and Leaf, and another Person node has not
C22_Witness ==
    /\ op = "AddNodeLabels" /\ raised = None
    /\ args = <<"Founder", "TestLabel">>
    /\ csv_header = <<"ind">>
    /\ csv = <<<<"1">>, <<Stranger>>>>
    /\ \E n \in DOMAIN db.node :
        /\ db.node[n].ind = "1"
        /\ db.node[n].labels = {"Person", "Founder", "Leaf", "TestLabel"}
    /\ \E n \in DOMAIN db.node : db.node[n].ind = "2" /\ "TestLabel" \notin db.node[n].labels


\* the identifiers that have a row of their own in a file
Individuals(file) ==
    LET records == csv_reader(file, TRUE, ",").records
    IN  {records[i][1] : i \in DOMAIN records}

\* C23: one node per individual in the row-by-row populator. After
\* PopulateFromCsv.populate_from_csv has ingested a pedigree with unique
\* identifiers into an empty database, there is one Person node for each
\* identifier that has a row, also when it is the parent in another row,
\* before its own row or after it.
C23_OneNodePerIndividual ==
    (op = "populate_from_csv" /\ raised = None /\ prev = EmptyGraph) =>
        \A x \in Individuals(csv) : Cardinality(Match(db, "Person", x)) = 1


\* C24: per-record edges in the command-line builder. After
\* build_db.BuildDB.populate_from_csv has ingested a file, for every record
\* (ind, father, mother, sex) of it: if father is not the sentinel "0" there
\* are the relationships ind -is_child-> father and father -is_father-> ind,
\* and if mother is not the sentinel there are ind -is_child-> mother and
\* mother -is_mother-> ind.
C24_PerRecordEdges ==
    (op = "build_db" /\ pc = "idle" /\ raised = None) =>
        \A i \in Body(csv) :
            LET ind == Field(csv[i], 1)
                father == Field(csv[i], 2)
                mother == Field(csv[i], 3)
            IN  /\ father # "0" =>
                    /\ father \in TargetsFrom(db, ind, "is_child")
                    /\ father \in SourcesInto(db, ind, "is_father")
                /\ mother # "0" =>
                    /\ mother \in TargetsFrom(db, ind, "is_child")
                    /\ mother \in SourcesInto(db, ind, "is_mother")

\* what holds of them: the relationships of C24 but the is_child to the father
C24_EdgesButChildOfFather ==
    (op = "build_db" /\ pc = "idle" /\ raised = None) =>
        \A i \in Body(csv) :
            LET ind == Field(csv[i], 1)
                father == Field(csv[i], 2)
                mother == Field(csv[i], 3)
            IN  /\ father # "0" => father \in SourcesInto(db, ind, "is_father")
                /\ mother # "0" =>
                    /\ mother \in TargetsFrom(db, ind, "is_child")
                    /\ mother \in SourcesInto(db, ind, "is_mother")


\* C25: sentinel substitution is the inverse of ingestion for the configured
\* sentinel. For a graph that BuildDB built with the sentinel na_id, whatever
\* its value, every reconstructed record has father = na_id exactly when no
\* is_father relationship comes into the individual and mother = na_id exactly
\* when no is_mother relationship does, and the father and mother of the record
\* are those of the one row the pedigree has for the individual.
C25_SentinelInverse ==
    (recon.live /\ Built) =>
        \A x \in DOMAIN recon.gen.data :
            LET record == recon.gen.data[x]
            IN  /\ record.father = na_id <=> SourcesInto(db, x, "is_father") = {}
                /\ record.mother = na_id <=> SourcesInto(db, x, "is_mother") = {}
                /\ \A i \in RowsOf(csv, x) :
                    Cardinality(RowsOf(csv, x)) = 1 =>
                        record.father = csv[i].father /\ record.mother = csv[i].mother

\* C25 where the sentinel is the default "0"
C25_DefaultSentinel == na_id = "0" => C25_SentinelInverse

\* C26: ancestor traversal on cyclic data. Also where is_child relationships
\* form a cycle, get_ancestors returns, each identifier that is reachable from
\* a proband once and no other, and reconstruct_genealogy returns a Genealogy
\* in which a proband that lies on a cycle is once: under its own identifier,
\* counted once by size, and added once, without an overwrite.
C26_CyclesTerminate ==
    recon.live =>
        LET ancestors == get_ancestors(db, recon.probands)
            chains == Chains(IsChild(db))
            reachable == {db.node[p[2]].ind :
                            p \in {q \in chains : db.node[q[1]].ind \in Range(recon.probands)}}
            cyclic == {db.node[p[1]].ind : p \in {q \in chains : q[1] = q[2]}}
        IN  /\ Len(ancestors) = Cardinality(Range(ancestors))
            /\ Range(ancestors) = reachable
            /\ \A x \in Range(recon.probands) \cap cyclic :
                /\ x \in Range(ancestors)
                /\ x \in Members
                /\ recon.gen.data[x].ind = x
                /\ recon.gen.size = Cardinality(Members)
                /\ \A i \in DOMAIN log : log[i][1] = "overwrite" => log[i][2] # x

\* individual 1 is the child of 2 and 2 the child of 1, and the Genealogy of
\* the proband 1 is reconstructed: it holds the two
C26_Witness ==
    /\ recon.live
    /\ recon.probands = <<"1">>
    /\ TargetsFrom(db, "1", "is_child") = {"2"}
    /\ TargetsFrom(db, "2", "is_child") = {"1"}
    /\ Members = {"1", "2"}
    /\ recon.gen.size = 2

====
